---- MODULE Spec2Model ----
(***************************************************************************)
(* Session lifecycle of the CarmoCream WhatsApp bridge.                    *)
(*                                                                         *)
(* The repository holds near-duplicate variants of one server.  Two of     *)
(* them are modelled, selected by `variant`:                               *)
(*   "remote"  src/server.js          RemoteAuth + SupabaseStore, attempt  *)
(*                                    counter and capped backoff           *)
(*   "local"   src/unnamed/part_002   LocalAuth + saveSession /            *)
(*                                    restoreSession, validated /send,     *)
(*                                    /logout                              *)
(* The messaging client library is opaque: each instance created by        *)
(* initClient is a small phase machine that emits the lifecycle events.    *)
(***************************************************************************)
EXTENDS Bags, FiniteSets, Integers, Sequences, TLC

VARIABLES
  variant,        \* which source file is running
  client,         \* `let client`: index into inst, 0 for null
  isReady,        \* `let isReady`
  qrImageBase64,  \* `let qrImageBase64` (server.js)
  lastQr,         \* `let lastQr` (part_002)
  initAttempts,   \* `let initAttempts` (server.js)
  inst,           \* phase of every client instance ever constructed
  timers,         \* bag of pending setTimeout callbacks
  intervals,      \* number of armed setInterval(saveSession) timers
  tasks,          \* bag of suspended async continuations (awaits in flight)
  store,          \* row of the sessions table for the session id
  sessionFile,    \* local session artifact on disk
  ev,             \* the handler that ran last, with what it answered
  schedDelay,     \* delay armed by the latest `disconnected` since `ready`
  attemptCap,     \* how far the environment lets the attempt counter grow
  fnIn,           \* input of the function applied last
  fnOut,          \* its result
  table,          \* rows of the sessions table, with their encoded data
  zip,            \* the session zip at the path RemoteAuth passes, in bytes
  saveCall        \* where the running SupabaseStore.save call stands

vars ==
  <<variant, client, isReady, qrImageBase64, lastQr, initAttempts, inst,
    timers, intervals, tasks, store, sessionFile, ev, schedDelay, attemptCap,
    fnIn, fnOut, table, zip, saveCall>>

\* what no handler writes
fnVars == <<attemptCap, fnIn, fnOut, table, zip, saveCall>>

----------------------------------------------------------------------------
(* Bounds of the model *)

\* the environment stops failing a cycle once the attempt counter could
\* reach this value
MaxAttempts == 4
\* the same, where the backoff is followed up to its ceiling (met at 12)
MaxBackoffAttempts == 14
\* the same, where the store methods of server.js take part
MaxStoreAttempts == 2
\* client instances that may be running or about to be started at once
MaxLive == 2
\* qr images that may be rendering at once
MaxQrTasks == 1
\* setInterval(saveSession) timers the environment lets part_002 arm
MaxIntervals == 2
\* saveSession upserts that may be in flight at once
MaxUpserts == 1
\* digits in the longest phone number tried
MaxDigits == 17
\* /logout requests that may be in flight at once
MaxLogouts == 1
\* bytes in the longest session zip tried
MaxBytes == 3

----------------------------------------------------------------------------
(* Program constants *)

BackoffBase == 5000
BackoffCap == 60000
AuthFailureDelay == 8000
ReconnectDelay == 8000
SaveDelayAuthenticated == 3000
SaveDelayReady == 2000
MinPhoneDigits == 9
MaxPhoneDigits == 15
PrefixedLen == 11
MaxMessageLen == 2000
WaitTimeout == 20000
PollInterval == 500
\* the base64 padding symbol, beside the 64 symbols 0..63
Pad == 64
\* byte values the session zip is made of
ByteValues == {90, 255}

Null == 0
NoRow == "absent"
NoFile == "missing"
NoArg == "none"
Blobs == {"s1", "s2"}

Min(a, b) == IF a < b THEN a ELSE b

\* no zip on disk
NoZip == [exists |-> FALSE, bytes |-> <<>>]

\* no save call is running
NoCall == [pc |-> "idle", elapsed |-> 0, bytes |-> <<>>, data |-> <<>>]

\* the byte-level store is empty and untouched
StoreAtRest == table = {} /\ zip = NoZip /\ saveCall = NoCall

One(x) == SetToBag({x})

Timer(cb, delay) == [cb |-> cb, delay |-> delay]

\* a suspended continuation: its kind, the data and the instance it holds
Task(k, a) == [k |-> k, a |-> a, i |-> 0]

TimersOf(cb) == {t \in BagToSet(timers) : t.cb = cb}

RestartTimers == TimersOf("restart")

SaveTimers == TimersOf("saveSession")

NumRestartTimers == BagCardinality([t \in RestartTimers |-> timers[t]])

TasksOf(k) == {t \in BagToSet(tasks) : t.k = k}

NumTasks(k) == BagCardinality([t \in TasksOf(k) |-> tasks[t]])

----------------------------------------------------------------------------
(* JavaScript values of a request body: a type tag and the value's String() *)
(* rendering as a sequence of characters                                    *)

Digit == {"0", "1", "2", "3", "4", "5", "6", "7", "8", "9"}

Whitespace == {" "}

JsUndefined == [t |-> "undefined", s |-> <<>>]

JsNull == [t |-> "null", s |-> <<>>]

JsStr(s) == [t |-> "string", s |-> s]

JsNum(s) == [t |-> "number", s |-> s]

\* the value is truthy: not undefined/null, not '', not 0
Truthy(v) ==
  CASE v.t = "string" -> Len(v.s) > 0
    [] v.t = "number" -> v.s # <<"0">>
    [] OTHER          -> FALSE

\* what a step leaves behind for inspection: the handler, the instance it
\* ran for, the delay it armed, the phase of the instance it replaced, and
\* for a request its body, the status answered and the sendMessage calls made;
\* del / out: how the store delete / other store call it awaited settled,
\* ret: what a store method returned, raised: an exception left the handler,
\* reason: the argument of `disconnected`, success: the `success` field of
\* the JSON answer, ready, hasQr, attempts: the fields of the /status answer
Event(h, i) ==
  [h |-> h, i |-> i, delay |-> -1, prev |-> "none", status |-> 0, calls |-> 0,
   to |-> Null, chat |-> <<>>, phone |-> JsUndefined, msg |-> JsUndefined,
   del |-> "none", out |-> "none", ret |-> "none", raised |-> FALSE,
   reason |-> "none", success |-> "absent", ready |-> "absent",
   hasQr |-> "absent", attempts |-> -1]

----------------------------------------------------------------------------
(* part_002: validatePhone and sanitizeMessage *)

\* String(raw || '')
StringOrEmpty(raw) == IF Truthy(raw) THEN raw.s ELSE <<>>

\* .replace(/\D/g, '')
StripNonDigits(s) == SelectSeq(s, LAMBDA c : c \in Digit)

\* digits.startsWith('34')
StartsWith34(d) == Len(d) >= 2 /\ d[1] = "3" /\ d[2] = "4"

\* validatePhone with its lower bound off by one
validatePhoneOffByOne(raw) ==
  LET digits == StripNonDigits(StringOrEmpty(raw))
  IN  IF Len(digits) <= MinPhoneDigits \/ Len(digits) > MaxPhoneDigits THEN JsNull
      ELSE JsStr(digits)

\* function validatePhone(raw)
validatePhone(raw) ==
  LET digits == StripNonDigits(StringOrEmpty(raw))
  IN  IF Len(digits) < MinPhoneDigits \/ Len(digits) > MaxPhoneDigits THEN JsNull
      ELSE IF StartsWith34(digits) /\ Len(digits) = PrefixedLen THEN JsStr(digits)
      ELSE IF Len(digits) = MinPhoneDigits THEN JsStr(<<"3", "4">> \o digits)
      ELSE IF Len(digits) >= MinPhoneDigits + 1 THEN JsStr(digits)
      ELSE JsNull

\* String.prototype.trim(): the blanks before the first and after the last
\* other character are dropped
Trim(s) ==
  LET n == Len(s)
      blankUpTo(k) == \A j \in 1..k : s[j] \in Whitespace
      blankFrom(k) == \A j \in k..n : s[j] \in Whitespace
  IN  IF blankUpTo(n) THEN <<>>
      ELSE SubSeq(s, CHOOSE k \in 1..n : s[k] \notin Whitespace /\ blankUpTo(k - 1),
                     n - (CHOOSE d \in 0..(n - 1) :
                            s[n - d] \notin Whitespace /\ blankFrom(n - d + 1)))

\* sanitizeMessage rejecting a message of exactly the maximum length
sanitizeMessageExclusive(raw) ==
  IF ~Truthy(raw) \/ raw.t # "string" THEN JsNull
  ELSE LET trimmed == Trim(raw.s)
       IN  IF Len(trimmed) = 0 \/ Len(trimmed) >= MaxMessageLen THEN JsNull
           ELSE JsStr(trimmed)

\* function sanitizeMessage(raw)
sanitizeMessage(raw) ==
  IF ~Truthy(raw) \/ raw.t # "string" THEN JsNull
  ELSE LET trimmed == Trim(raw.s)
       IN  IF Len(trimmed) = 0 \/ Len(trimmed) > MaxMessageLen THEN JsNull
           ELSE JsStr(trimmed)

----------------------------------------------------------------------------
(* The opaque client.  Every constructed instance lives in a slot of inst  *)
(* and moves through phases as it emits events; a slot is reused once its  *)
(* instance can emit nothing more and `client` no longer refers to it.     *)

Slots == 1..(2 * MaxLive + 1)

Live == {"starting", "pairing", "authenticated", "ready", "failed", "loggedOut"}

Terminal == {"closed", "destroyed"}

CanEmit(e, ph) ==
  CASE e = "qr"            -> ph \in {"starting", "pairing"}
    [] e = "authenticated" -> ph \in {"starting", "pairing"}
    [] e = "ready"         -> ph = "authenticated"
    [] e = "auth_failure"  -> ph \in {"starting", "pairing"}
    [] e = "disconnected"  -> ph \in Live
    [] OTHER               -> FALSE

NumLive == Cardinality({s \in Slots : inst[s] \in Live})

\* restarts that are armed, running, or will be armed by a suspended handler
PendingRestarts ==
  NumRestartTimers + NumTasks("authFailDelete") + NumTasks("discDelete")
    + NumTasks("restore")

\* slot s is still referred to by `client` or by a suspended continuation
Referenced(s, c, tk) == s = c \/ \E t \in BagToSet(tk) : t.i = s

\* the slots f with every unreferenced finished instance dropped
Collect(f, c, tk) ==
  [s \in Slots |-> IF f[s] \in Terminal /\ ~Referenced(s, c, tk) THEN "free" ELSE f[s]]

\* instance i moves to phase ph
SetPhase(i, ph) == inst' = Collect([inst EXCEPT ![i] = ph], client, tasks)

\* the slots after `client` stops referring to its instance
Released == Collect(inst, Null, tasks)

FreeSlot(f) == CHOOSE s \in Slots : f[s] = "free" /\ \A r \in Slots : f[r] = "free" => s <= r

----------------------------------------------------------------------------
(* server.js: initClient and the lifecycle handlers *)

\* the delay without its ceiling
RestartDelayUncapped(n) == BackoffBase * n

\* Math.min(5000 * initAttempts, 60000)
RestartDelay(n) == Min(BackoffBase * n, BackoffCap)

\* client.on('qr'): isReady = false, then await qrcode.toDataURL(qr)
OnQrRemote(i) ==
  /\ variant = "remote"
  /\ CanEmit("qr", inst[i])
  /\ NumTasks("qrImage") < MaxQrTasks
  /\ SetPhase(i, "pairing")
  /\ isReady' = FALSE
  /\ tasks' = tasks (+) One(Task("qrImage", NoArg))
  /\ ev' = Event("qr", i)
  /\ UNCHANGED <<variant, client, qrImageBase64, lastQr, initAttempts, timers,
                 intervals, store, sessionFile, schedDelay, fnVars>>

\* the continuation of the qr handler: toDataURL resolved, or threw and the
\* catch logged it
QrImageDone(ok) ==
  /\ variant = "remote"
  /\ NumTasks("qrImage") > 0
  /\ tasks' = tasks (-) One(Task("qrImage", NoArg))
  /\ qrImageBase64' = IF ok THEN "image" ELSE qrImageBase64
  /\ ev' = Event("qrImage", Null)
  /\ UNCHANGED <<variant, client, isReady, lastQr, initAttempts, inst, timers,
                 intervals, store, sessionFile, schedDelay, fnVars>>

\* an `authenticated` handler that also resets the attempt counter
OnAuthenticatedResetting(i) ==
  /\ variant = "remote"
  /\ CanEmit("authenticated", inst[i])
  /\ SetPhase(i, "authenticated")
  /\ initAttempts' = 0
  /\ ev' = Event("authenticated", i)
  /\ UNCHANGED <<variant, client, isReady, qrImageBase64, lastQr, timers,
                 intervals, tasks, store, sessionFile, schedDelay, fnVars>>

\* client.on('authenticated'): logs only
OnAuthenticatedRemote(i) ==
  /\ variant = "remote"
  /\ CanEmit("authenticated", inst[i])
  /\ SetPhase(i, "authenticated")
  /\ ev' = Event("authenticated", i)
  /\ UNCHANGED <<variant, client, isReady, qrImageBase64, lastQr, initAttempts,
                 timers, intervals, tasks, store, sessionFile, schedDelay,
                 fnVars>>

\* client.on('ready')
OnReadyRemote(i) ==
  /\ variant = "remote"
  /\ CanEmit("ready", inst[i])
  /\ SetPhase(i, "ready")
  /\ isReady' = TRUE
  /\ qrImageBase64' = "null"
  /\ initAttempts' = 0
  /\ schedDelay' = -1
  /\ ev' = Event("ready", i)
  /\ UNCHANGED <<variant, client, lastQr, timers, intervals, tasks, store,
                 sessionFile, fnVars>>

\* client.on('auth_failure'): isReady = false, then await store.delete(...)
OnAuthFailureRemote(i) ==
  /\ variant = "remote"
  /\ CanEmit("auth_failure", inst[i])
  /\ NumLive + PendingRestarts < MaxLive
  /\ initAttempts + PendingRestarts < attemptCap
  /\ SetPhase(i, "failed")
  /\ isReady' = FALSE
  /\ tasks' = tasks (+) One(Task("authFailDelete", NoArg))
  /\ ev' = Event("auth_failure", i)
  /\ UNCHANGED <<variant, client, qrImageBase64, lastQr, initAttempts, timers,
                 intervals, store, sessionFile, schedDelay, fnVars>>

\* an auth_failure continuation that backs off like `disconnected`
AuthFailureDeleteDoneBackoff(outcome) ==
  /\ variant = "remote"
  /\ NumTasks("authFailDelete") > 0
  /\ tasks' = tasks (-) One(Task("authFailDelete", NoArg))
  /\ store' = IF outcome = "ok" THEN NoRow ELSE store
  /\ timers' = timers (+) One(Timer("restart", RestartDelay(initAttempts)))
  /\ ev' = [Event("authFailDelete", Null) EXCEPT
             !.delay = RestartDelay(initAttempts), !.del = outcome]
  /\ UNCHANGED <<variant, client, isReady, qrImageBase64, lastQr, initAttempts,
                 inst, intervals, sessionFile, schedDelay, fnVars>>

\* SupabaseStore.delete settles (its try/catch swallows a throw), then the
\* handler arms setTimeout(() => initClient(), 8000)
AuthFailureDeleteDone(outcome) ==
  /\ variant = "remote"
  /\ NumTasks("authFailDelete") > 0
  /\ tasks' = tasks (-) One(Task("authFailDelete", NoArg))
  /\ store' = IF outcome = "ok" THEN NoRow ELSE store
  /\ timers' = timers (+) One(Timer("restart", AuthFailureDelay))
  /\ ev' = [Event("authFailDelete", Null) EXCEPT
             !.delay = AuthFailureDelay, !.del = outcome]
  /\ UNCHANGED <<variant, client, isReady, qrImageBase64, lastQr, initAttempts,
                 inst, intervals, sessionFile, schedDelay, fnVars>>

\* client.on('disconnected')
OnDisconnectedRemote(i, reason) ==
  /\ variant = "remote"
  /\ CanEmit("disconnected", inst[i])
  /\ initAttempts + PendingRestarts < attemptCap
  /\ SetPhase(i, "closed")
  /\ isReady' = FALSE
  /\ timers' = timers (+) One(Timer("restart", RestartDelay(initAttempts)))
  /\ schedDelay' = RestartDelay(initAttempts)
  /\ ev' = [Event("disconnected", i) EXCEPT
             !.delay = RestartDelay(initAttempts), !.reason = reason]
  /\ UNCHANGED <<variant, client, qrImageBase64, lastQr, initAttempts,
                 intervals, tasks, store, sessionFile, fnVars>>

\* a restart timer fires: () => initClient(), which counts the attempt,
\* constructs the next Client over the old reference and initializes it
RestartRemote(t) ==
  /\ variant = "remote"
  /\ t \in RestartTimers
  /\ timers' = timers (-) One(t)
  /\ initAttempts' = initAttempts + 1
  /\ LET s == FreeSlot(Released)
     IN /\ inst' = [Released EXCEPT ![s] = "starting"]
        /\ client' = s
        /\ ev' = [Event("initClient", s) EXCEPT !.prev = inst[client]]
  /\ UNCHANGED <<variant, isReady, qrImageBase64, lastQr, intervals, tasks,
                 store, sessionFile, schedDelay, fnVars>>

----------------------------------------------------------------------------
(* server.js: SupabaseStore, whose methods the RemoteAuth strategy of a     *)
(* client instance calls; sessionFile is the zip at the path it passes      *)

\* a sessionExists that answers from the row even when the lookup failed
sessionExistsIgnoringError(outcome) == store # NoRow

\* what sessionExists returns: !!data of a select that settled without
\* throwing (an error result carries no data); false from the catch
sessionExists(outcome) == outcome = "ok" /\ store # NoRow

\* SupabaseStore.sessionExists({ session }), called while initializing
StoreSessionExists(i, outcome) ==
  /\ variant = "remote"
  /\ inst[i] = "starting"
  /\ ev' = [Event("sessionExists", i) EXCEPT
             !.out = outcome,
             !.ret = IF sessionExists(outcome) THEN "true" ELSE "false"]
  /\ UNCHANGED <<variant, client, isReady, qrImageBase64, lastQr, initAttempts,
                 inst, timers, intervals, tasks, store, sessionFile, schedDelay,
                 fnVars>>

\* the zip at destPath after extract: written only from a row that was read
extract(outcome) ==
  IF outcome = "ok" /\ store # NoRow THEN store ELSE sessionFile

\* SupabaseStore.extract({ session, path }): the strategy calls it while
\* initializing, after sessionExists has answered
StoreExtract(i, outcome) ==
  /\ variant = "remote"
  /\ inst[i] = "starting"
  /\ ev.h = "sessionExists" /\ ev.i = i
  /\ sessionFile' = extract(outcome)
  /\ ev' = [Event("extract", i) EXCEPT
             !.out = outcome,
             !.ret = IF sessionFile' # sessionFile THEN "written" ELSE "none"]
  /\ UNCHANGED <<variant, client, isReady, qrImageBase64, lastQr, initAttempts,
                 inst, timers, intervals, tasks, store, schedDelay, fnVars>>

\* SupabaseStore.save({ session, path }) up to its upsert: waitForFile and
\* readFileSync of the zip the strategy wrote; a timeout or read error goes
\* to the catch
StoreSaveStart(i, b, fileOk) ==
  /\ variant = "remote"
  /\ inst[i] \in {"authenticated", "ready"}
  /\ NumTasks("storeUpsert") < MaxUpserts
  /\ IF fileOk
       THEN /\ tasks' = tasks (+) One(Task("storeUpsert", b))
            /\ ev' = Event("save", i)
       ELSE /\ tasks' = tasks
            /\ ev' = [Event("save", i) EXCEPT !.out = "nofile"]
  /\ UNCHANGED <<variant, client, isReady, qrImageBase64, lastQr, initAttempts,
                 inst, timers, intervals, store, sessionFile, schedDelay,
                 fnVars>>

\* the upsert of save settles: the row is replaced, or the error result /
\* exception is logged
StoreSaveDone(t, outcome) ==
  /\ variant = "remote"
  /\ t \in TasksOf("storeUpsert")
  /\ tasks' = tasks (-) One(t)
  /\ store' = IF outcome = "ok" THEN t.a ELSE store
  /\ ev' = [Event("save", Null) EXCEPT !.out = outcome]
  /\ UNCHANGED <<variant, client, isReady, qrImageBase64, lastQr, initAttempts,
                 inst, timers, intervals, sessionFile, schedDelay, fnVars>>

----------------------------------------------------------------------------
(* part_002: saveSession / restoreSession *)

\* saveSession() up to its await: existsSync, readFileSync + JSON.parse, then
\* the upsert is issued with the parsed data
saveSessionStart(readable) ==
  /\ tasks' = IF sessionFile = NoFile \/ ~readable THEN tasks
              ELSE tasks (+) One(Task("upsert", sessionFile))
  /\ ev' = [Event("saveSession", Null) EXCEPT
             !.out = IF sessionFile = NoFile THEN "nofile"
                     ELSE IF ~readable THEN "unreadable" ELSE "none"]

\* a saveSession whose failed upsert also drops the ready flag
UpsertDoneEscalating(t, outcome) ==
  /\ variant = "local"
  /\ t \in TasksOf("upsert")
  /\ tasks' = tasks (-) One(t)
  /\ store' = IF outcome = "ok" THEN t.a ELSE store
  /\ isReady' = IF outcome = "ok" THEN isReady ELSE FALSE
  /\ ev' = [Event("upsert", Null) EXCEPT !.out = outcome]
  /\ UNCHANGED <<variant, client, qrImageBase64, lastQr, initAttempts, inst,
                 timers, intervals, sessionFile, schedDelay, fnVars>>

\* the upsert of saveSession settles: the row is replaced, or an error
\* result / exception is logged
UpsertDone(t, outcome) ==
  /\ variant = "local"
  /\ t \in TasksOf("upsert")
  /\ tasks' = tasks (-) One(t)
  /\ store' = IF outcome = "ok" THEN t.a ELSE store
  /\ ev' = [Event("upsert", Null) EXCEPT !.out = outcome]
  /\ UNCHANGED <<variant, client, isReady, qrImageBase64, lastQr, initAttempts,
                 inst, timers, intervals, sessionFile, schedDelay, fnVars>>

\* a setTimeout(saveSession, ...) armed by `authenticated` or `ready` fires
SaveTimerFires(t, readable) ==
  /\ variant = "local"
  /\ t \in SaveTimers
  /\ NumTasks("upsert") < MaxUpserts
  /\ timers' = timers (-) One(t)
  /\ saveSessionStart(readable)
  /\ UNCHANGED <<variant, client, isReady, qrImageBase64, lastQr, initAttempts,
                 inst, intervals, store, sessionFile, schedDelay, fnVars>>

\* a setInterval(saveSession, 15 min) armed by some initClient fires
IntervalFires ==
  /\ variant = "local"
  /\ intervals > 0
  /\ NumTasks("upsert") < MaxUpserts
  /\ sessionFile # NoFile
  /\ saveSessionStart(TRUE)
  /\ UNCHANGED <<variant, client, isReady, qrImageBase64, lastQr, initAttempts,
                 inst, timers, intervals, store, sessionFile, schedDelay,
                 fnVars>>

\* the LocalAuth client writes its session artifact once authenticated
ClientWritesSession(i, b) ==
  /\ variant = "local"
  /\ inst[i] \in {"authenticated", "ready"}
  /\ sessionFile # b
  /\ sessionFile' = b
  /\ ev' = Event("writeSession", i)
  /\ UNCHANGED <<variant, client, isReady, qrImageBase64, lastQr, initAttempts,
                 inst, timers, intervals, tasks, store, schedDelay, fnVars>>

\* a restoreSession that writes the artifact whatever the select answered
restoreSessionIgnoringError(outcome) ==
  IF store # NoRow THEN store ELSE sessionFile

\* restoreSession(): the file written when the select returned a row
restoreSession(outcome) ==
  IF outcome = "ok" /\ store # NoRow THEN store ELSE sessionFile

----------------------------------------------------------------------------
(* part_002: initClient and the lifecycle handlers *)

\* an initClient that does not await restoreSession(): the client is created
\* while the restore is still pending
InitClientLocalEager(outcome) ==
  /\ variant = "local"
  /\ NumTasks("restore") > 0
  /\ LET s == FreeSlot(Released)
     IN /\ inst' = [Released EXCEPT ![s] = "starting"]
        /\ client' = s
        /\ ev' = [Event("initClient", s) EXCEPT
                    !.prev = IF client = Null THEN "none" ELSE inst[client],
                    !.out = outcome]
  /\ intervals' = intervals + 1
  /\ UNCHANGED <<variant, isReady, qrImageBase64, lastQr, initAttempts, timers,
                 tasks, store, sessionFile, schedDelay, fnVars>>

\* initClient() after `await restoreSession()`: new Client over the old
\* reference, the handlers, setInterval(saveSession), client.initialize()
InitClientLocal(outcome) ==
  /\ variant = "local"
  /\ NumTasks("restore") > 0
  /\ tasks' = tasks (-) One(Task("restore", NoArg))
  /\ sessionFile' = restoreSession(outcome)
  /\ LET s == FreeSlot(Released)
     IN /\ inst' = [Released EXCEPT ![s] = "starting"]
        /\ client' = s
        /\ ev' = [Event("initClient", s) EXCEPT
                    !.prev = IF client = Null THEN "none" ELSE inst[client],
                    !.out = outcome]
  /\ intervals' = intervals + 1
  /\ UNCHANGED <<variant, isReady, qrImageBase64, lastQr, initAttempts, timers,
                 store, schedDelay, fnVars>>

\* client.on('qr')
OnQrLocal(i) ==
  /\ variant = "local"
  /\ CanEmit("qr", inst[i])
  /\ SetPhase(i, "pairing")
  /\ lastQr' = "qr"
  /\ ev' = Event("qr", i)
  /\ UNCHANGED <<variant, client, isReady, qrImageBase64, initAttempts, timers,
                 intervals, tasks, store, sessionFile, schedDelay, fnVars>>

\* client.on('authenticated')
OnAuthenticatedLocal(i) ==
  /\ variant = "local"
  /\ CanEmit("authenticated", inst[i])
  /\ SetPhase(i, "authenticated")
  /\ lastQr' = "null"
  /\ timers' = timers (+) One(Timer("saveSession", SaveDelayAuthenticated))
  /\ ev' = [Event("authenticated", i) EXCEPT !.delay = SaveDelayAuthenticated]
  /\ UNCHANGED <<variant, client, isReady, qrImageBase64, initAttempts,
                 intervals, tasks, store, sessionFile, schedDelay, fnVars>>

\* client.on('ready')
OnReadyLocal(i) ==
  /\ variant = "local"
  /\ CanEmit("ready", inst[i])
  /\ SetPhase(i, "ready")
  /\ isReady' = TRUE
  /\ lastQr' = "null"
  /\ timers' = timers (+) One(Timer("saveSession", SaveDelayReady))
  /\ ev' = [Event("ready", i) EXCEPT !.delay = SaveDelayReady]
  /\ UNCHANGED <<variant, client, qrImageBase64, initAttempts, intervals, tasks,
                 store, sessionFile, schedDelay, fnVars>>

\* `auth_failure`: part_002 registers no handler for it
OnAuthFailureLocal(i) ==
  /\ variant = "local"
  /\ CanEmit("auth_failure", inst[i])
  /\ SetPhase(i, "failed")
  /\ ev' = Event("auth_failure", i)
  /\ UNCHANGED <<variant, client, isReady, qrImageBase64, lastQr, initAttempts,
                 timers, intervals, tasks, store, sessionFile, schedDelay,
                 fnVars>>

\* client.on('disconnected'): isReady = false; on LOGOUT the store delete is
\* awaited first; then setTimeout(reconnect, 8000)
OnDisconnectedLocal(i, reason) ==
  /\ variant = "local"
  /\ CanEmit("disconnected", inst[i])
  /\ intervals + PendingRestarts < MaxIntervals
  /\ SetPhase(i, "closed")
  /\ isReady' = FALSE
  /\ IF reason = "LOGOUT"
       THEN /\ tasks' = tasks (+) One(Task("discDelete", NoArg))
            /\ timers' = timers
            /\ ev' = [Event("disconnected", i) EXCEPT !.reason = reason]
       ELSE /\ tasks' = tasks
            /\ timers' = timers (+) One(Timer("restart", ReconnectDelay))
            /\ ev' = [Event("disconnected", i) EXCEPT
                       !.delay = ReconnectDelay, !.reason = reason]
  /\ UNCHANGED <<variant, client, qrImageBase64, lastQr, initAttempts,
                 intervals, store, sessionFile, schedDelay, fnVars>>

\* the delete awaited by the disconnected handler settles: with a result
\* (row deleted, or an error result that is not inspected) the timer is
\* armed; a rejection leaves the handler before setTimeout
DisconnectDeleteDone(outcome) ==
  /\ variant = "local"
  /\ NumTasks("discDelete") > 0
  /\ tasks' = tasks (-) One(Task("discDelete", NoArg))
  /\ store' = IF outcome = "ok" THEN NoRow ELSE store
  /\ IF outcome = "throw"
       THEN /\ timers' = timers
            /\ ev' = [Event("discDelete", Null) EXCEPT
                       !.del = outcome, !.raised = TRUE]
       ELSE /\ timers' = timers (+) One(Timer("restart", ReconnectDelay))
            /\ ev' = [Event("discDelete", Null) EXCEPT
                       !.delay = ReconnectDelay, !.del = outcome]
  /\ UNCHANGED <<variant, client, isReady, qrImageBase64, lastQr, initAttempts,
                 inst, intervals, sessionFile, schedDelay, fnVars>>

\* client?.destroy().catch(() => {}): teardown of the referenced instance
\* starts and is not awaited
destroyStart ==
  IF client # Null /\ inst[client] \notin {"destroying", "destroyed"}
    THEN [inst EXCEPT ![client] = "destroying"]
    ELSE inst

\* a reconnect callback that tears down without calling initClient()
RestartLocalNoInit(t) ==
  /\ variant = "local"
  /\ t \in RestartTimers
  /\ timers' = timers (-) One(t)
  /\ inst' = destroyStart
  /\ ev' = Event("restart", client)
  /\ UNCHANGED <<variant, client, isReady, qrImageBase64, lastQr, initAttempts,
                 intervals, tasks, store, sessionFile, schedDelay, fnVars>>

\* the reconnect timer fires: client?.destroy() is started, initClient() is
\* called and suspends in restoreSession
RestartLocal(t) ==
  /\ variant = "local"
  /\ t \in RestartTimers
  /\ timers' = timers (-) One(t)
  /\ inst' = destroyStart
  /\ tasks' = tasks (+) One(Task("restore", NoArg))
  /\ ev' = Event("restart", client)
  /\ UNCHANGED <<variant, client, isReady, qrImageBase64, lastQr, initAttempts,
                 intervals, store, sessionFile, schedDelay, fnVars>>

\* the teardown started by destroy() completes
DestroyDone(i) ==
  /\ variant = "local"
  /\ inst[i] = "destroying"
  /\ SetPhase(i, "destroyed")
  /\ ev' = Event("destroyed", i)
  /\ UNCHANGED <<variant, client, isReady, qrImageBase64, lastQr, initAttempts,
                 timers, intervals, tasks, store, sessionFile, schedDelay,
                 fnVars>>

----------------------------------------------------------------------------
(* The HTTP control surface *)

\* the answer of a handler: status, sendMessage calls made and their target
Answer(h, phone, message, status, chat) ==
  [Event(h, Null) EXCEPT
     !.status = status, !.phone = phone, !.msg = message,
     !.calls = IF status \in {200, 500} THEN 1 ELSE 0,
     !.to = IF status \in {200, 500} THEN client ELSE Null,
     !.chat = IF status \in {200, 500} THEN chat ELSE <<>>]

\* the `success` field of the JSON answer to /send
SuccessField(status) ==
  CASE status = 200                                   -> "true"
    [] status \in {500, 503}                          -> "false"
    [] status = 400 /\ variant = "local"               -> "false"
    [] OTHER                                          -> "absent"

\* a /send that tries sendMessage a second time when the first call fails
SendRemoteRetrying(phone, message, authorized, delivered) ==
  /\ variant = "remote"
  /\ LET clean == StripNonDigits(phone.s)
         status ==
           IF ~authorized THEN 401
           ELSE IF ~Truthy(phone) \/ ~Truthy(message) THEN 400
           ELSE IF ~isReady \/ client = Null THEN 503
           ELSE IF delivered THEN 200 ELSE 500
     IN  ev' = [Answer("send", phone, message, status, clean)
                  EXCEPT !.success = SuccessField(status),
                         !.calls = IF status = 500 THEN 2 ELSE @]
  /\ UNCHANGED <<variant, client, isReady, qrImageBase64, lastQr, initAttempts,
                 inst, timers, intervals, tasks, store, sessionFile, schedDelay,
                 fnVars>>

\* server.js app.post('/send', checkSecret, ...): delivered tells whether the
\* awaited client.sendMessage resolved
SendRemote(phone, message, authorized, delivered) ==
  /\ variant = "remote"
  /\ LET clean == StripNonDigits(phone.s)
         status ==
           IF ~authorized THEN 401
           ELSE IF ~Truthy(phone) \/ ~Truthy(message) THEN 400
           ELSE IF ~isReady \/ client = Null THEN 503
           ELSE IF delivered THEN 200 ELSE 500
     IN  ev' = [Answer("send", phone, message, status, clean)
                  EXCEPT !.success = SuccessField(status)]
  /\ UNCHANGED <<variant, client, isReady, qrImageBase64, lastQr, initAttempts,
                 inst, timers, intervals, tasks, store, sessionFile, schedDelay,
                 fnVars>>

\* /send without the readiness check
SendLocalUnguarded(phone, message, authorized, delivered) ==
  /\ variant = "local"
  /\ LET p == validatePhone(phone)
         m == sanitizeMessage(message)
         status ==
           IF ~authorized THEN 401
           ELSE IF ~Truthy(p) THEN 400
           ELSE IF ~Truthy(m) THEN 400
           ELSE IF delivered THEN 200 ELSE 500
     IN  ev' = Answer("send", phone, message, status, p.s)
  /\ UNCHANGED <<variant, client, isReady, qrImageBase64, lastQr, initAttempts,
                 inst, timers, intervals, tasks, store, sessionFile, schedDelay,
                 fnVars>>

\* a /send that takes a failed delivery for a lost connection
SendLocalDroppingReady(phone, message, authorized, delivered) ==
  /\ variant = "local"
  /\ LET p == validatePhone(phone)
         m == sanitizeMessage(message)
         status ==
           IF ~authorized THEN 401
           ELSE IF ~Truthy(p) THEN 400
           ELSE IF ~Truthy(m) THEN 400
           ELSE IF ~isReady \/ client = Null THEN 503
           ELSE IF delivered THEN 200 ELSE 500
     IN  /\ ev' = [Answer("send", phone, message, status, p.s)
                     EXCEPT !.success = SuccessField(status)]
         /\ isReady' = IF status = 500 THEN FALSE ELSE isReady
  /\ UNCHANGED <<variant, client, qrImageBase64, lastQr, initAttempts,
                 inst, timers, intervals, tasks, store, sessionFile, schedDelay,
                 fnVars>>

\* part_002 app.post('/send', auth, sendLimiter, ...)
SendLocal(phone, message, authorized, delivered) ==
  /\ variant = "local"
  /\ LET p == validatePhone(phone)
         m == sanitizeMessage(message)
         status ==
           IF ~authorized THEN 401
           ELSE IF ~Truthy(p) THEN 400
           ELSE IF ~Truthy(m) THEN 400
           ELSE IF ~isReady \/ client = Null THEN 503
           ELSE IF delivered THEN 200 ELSE 500
     IN  ev' = [Answer("send", phone, message, status, p.s)
                  EXCEPT !.success = SuccessField(status)]
  /\ UNCHANGED <<variant, client, isReady, qrImageBase64, lastQr, initAttempts,
                 inst, timers, intervals, tasks, store, sessionFile, schedDelay,
                 fnVars>>

\* the text of a JSON boolean
JsonBool(b) == IF b THEN "true" ELSE "false"

\* server.js app.get('/status'): no middleware, the three fields as JSON
StatusRemote ==
  /\ variant = "remote"
  /\ ev' = [Event("status", Null) EXCEPT
              !.status = 200,
              !.ready = JsonBool(isReady),
              !.hasQr = JsonBool(qrImageBase64 # "null"),
              !.attempts = initAttempts]
  /\ UNCHANGED <<variant, client, isReady, qrImageBase64, lastQr, initAttempts,
                 inst, timers, intervals, tasks, store, sessionFile, schedDelay,
                 fnVars>>

\* part_002 app.get('/status', auth, ...): one of three pages
StatusLocal(authorized) ==
  /\ variant = "local"
  /\ ev' = IF ~authorized
             THEN [Event("status", Null) EXCEPT !.status = 401]
             ELSE [Event("status", Null) EXCEPT
                     !.status = 200,
                     !.ret = IF isReady THEN "connected"
                             ELSE IF lastQr # "null" THEN "scan"
                             ELSE "starting"]
  /\ UNCHANGED <<variant, client, isReady, qrImageBase64, lastQr, initAttempts,
                 inst, timers, intervals, tasks, store, sessionFile, schedDelay,
                 fnVars>>

LogoutsInFlight == NumTasks("logoutClient") + NumTasks("logoutDelete")

\* part_002 app.post('/logout', auth, ...) up to its first await:
\* `await client?.logout()`
LogoutStart(authorized) ==
  /\ variant = "local"
  /\ LogoutsInFlight < MaxLogouts
  /\ IF ~authorized
       THEN /\ tasks' = tasks
            /\ ev' = Answer("logout", JsUndefined, JsUndefined, 401, <<>>)
       ELSE /\ tasks' = tasks (+) One(IF client = Null
                                        THEN Task("logoutDelete", NoArg)
                                        ELSE [Task("logoutClient", NoArg) EXCEPT !.i = client])
            /\ ev' = Event("logoutStart", client)
  /\ UNCHANGED <<variant, client, isReady, qrImageBase64, lastQr, initAttempts,
                 inst, timers, intervals, store, sessionFile, schedDelay, fnVars>>

\* client.logout() settles: a rejection goes to the catch (500, no delete);
\* otherwise the instance is logged out and the store delete is awaited
LogoutClientDone(t, outcome) ==
  /\ variant = "local"
  /\ t \in TasksOf("logoutClient")
  /\ IF outcome = "throw"
       THEN /\ tasks' = tasks (-) One(t)
            /\ inst' = Collect(inst, client, tasks')
            /\ ev' = Answer("logout", JsUndefined, JsUndefined, 500, <<>>)
       ELSE /\ tasks' = (tasks (-) One(t)) (+) One(Task("logoutDelete", NoArg))
            /\ inst' = Collect([inst EXCEPT ![t.i] =
                                  IF @ \in Live THEN "loggedOut" ELSE @],
                               client, tasks')
            /\ ev' = Event("logoutClient", t.i)
  /\ UNCHANGED <<variant, client, isReady, qrImageBase64, lastQr, initAttempts,
                 timers, intervals, store, sessionFile, schedDelay, fnVars>>

\* the delete awaited by /logout settles: with a result (row deleted, or an
\* error result that is not inspected) the handler answers success; a
\* rejection goes to the catch
LogoutDeleteDone(outcome) ==
  /\ variant = "local"
  /\ NumTasks("logoutDelete") > 0
  /\ tasks' = tasks (-) One(Task("logoutDelete", NoArg))
  /\ store' = IF outcome = "ok" THEN NoRow ELSE store
  /\ ev' = [Answer("logout", JsUndefined, JsUndefined,
                   IF outcome = "throw" THEN 500 ELSE 200, <<>>)
             EXCEPT !.del = outcome]
  /\ UNCHANGED <<variant, client, isReady, qrImageBase64, lastQr, initAttempts,
                 inst, timers, intervals, sessionFile, schedDelay, fnVars>>

----------------------------------------------------------------------------
(* Request bodies *)

DigitCycle == <<"6", "1", "2", "3", "4", "5", "6", "7", "8", "9">>

\* n digits, the first ones taken from lead
DigitString(n, lead) ==
  [k \in 1..n |-> IF k <= Len(lead) THEN lead[k] ELSE DigitCycle[((k - 1) % 10) + 1]]

\* the same digits written with a leading + and a blank after every third
Formatted(d) ==
  <<"+">> \o [k \in 1..(Len(d) + Len(d) \div 3) |->
                IF k % 4 = 0 THEN " " ELSE d[k - (k \div 4)]]

Chars(n, c) == [k \in 1..n |-> c]

Hola == <<"h", "o", "l", "a">>

\* phone fields for the validation functions
RawPhones ==
  {JsStr(DigitString(n, lead)) : n \in 0..MaxDigits, lead \in {<<"3", "4">>, <<"6">>}}
    \cup {JsStr(Formatted(DigitString(n, lead))) :
            n \in 0..MaxDigits, lead \in {<<"3", "4">>, <<"6">>}}
    \cup {JsUndefined, JsNull, JsStr(<<"a", "b", "c">>), JsNum(<<"0">>),
          JsNum(DigitString(MinPhoneDigits, <<"6">>))}

\* message fields for the validation functions, around the length limit
RawMessages ==
  {JsStr(Chars(lead, " ") \o Chars(n, "x") \o Chars(trail, " ")) :
      n \in {0, 1, MaxMessageLen - 1, MaxMessageLen, MaxMessageLen + 1},
      lead \in {0, 2}, trail \in {0, 1}}
    \cup {JsUndefined, JsNull, JsNum(<<"7">>), JsStr(<<"a", " ", "b">>), JsStr(Hola)}

\* bodies sent to /send while the lifecycle runs
SendPhones ==
  {JsUndefined, JsStr(<<"a", "b", "c">>), JsStr(DigitString(MinPhoneDigits, <<"6">>))}

SendMessages == {JsStr(<<>>), JsStr(Hola)}

----------------------------------------------------------------------------
(* Initial states: the modules have been loaded *)

\* server.js calls initClient() while loading
InitRemote ==
  /\ variant = "remote"
  /\ client = 1
  /\ isReady = FALSE
  /\ qrImageBase64 = "null"
  /\ lastQr = "null"
  /\ initAttempts = 1
  /\ inst = [s \in Slots |-> IF s = 1 THEN "starting" ELSE "free"]
  /\ timers = EmptyBag
  /\ intervals = 0
  /\ tasks = EmptyBag
  /\ store \in {NoRow} \cup Blobs
  /\ sessionFile = NoFile
  /\ ev = Event("boot", 1)
  /\ schedDelay = -1
  /\ attemptCap = MaxAttempts
  /\ fnIn = [f |-> "none", raw |-> JsUndefined]
  /\ fnOut = [done |-> FALSE, v |-> JsUndefined]
  /\ StoreAtRest

\* part_002 calls initClient() from the listen callback: it is suspended in
\* restoreSession, `client` is still null
InitLocal ==
  /\ variant = "local"
  /\ client = Null
  /\ isReady = FALSE
  /\ qrImageBase64 = "null"
  /\ lastQr = "null"
  /\ initAttempts = 0
  /\ inst = [s \in Slots |-> "free"]
  /\ timers = EmptyBag
  /\ intervals = 0
  /\ tasks = One(Task("restore", NoArg))
  /\ store \in {NoRow} \cup Blobs
  /\ sessionFile = NoFile
  /\ ev = Event("boot", Null)
  /\ schedDelay = -1
  /\ attemptCap = MaxAttempts
  /\ fnIn = [f |-> "none", raw |-> JsUndefined]
  /\ fnOut = [done |-> FALSE, v |-> JsUndefined]
  /\ StoreAtRest

Init == InitRemote \/ InitLocal

Outcomes == {"ok", "error", "throw"}

\* the argument of `disconnected`: explicit logout, or anything else
Reasons == {"LOGOUT", "NAVIGATION"}

NextRemote ==
  \/ \E i \in Slots : OnQrRemote(i)
  \/ \E ok \in BOOLEAN : QrImageDone(ok)
  \/ \E i \in Slots : OnAuthenticatedRemote(i)
  \/ \E i \in Slots : OnReadyRemote(i)
  \/ \E i \in Slots : OnAuthFailureRemote(i)
  \/ \E o \in Outcomes : AuthFailureDeleteDone(o)
  \/ \E i \in Slots, r \in Reasons : OnDisconnectedRemote(i, r)
  \/ \E t \in RestartTimers : RestartRemote(t)

\* calls the RemoteAuth strategy makes into SupabaseStore
StoreRemote ==
  \/ \E i \in Slots, o \in Outcomes : StoreSessionExists(i, o)
  \/ \E i \in Slots, o \in Outcomes : StoreExtract(i, o)
  \/ \E i \in Slots, b \in Blobs, f \in BOOLEAN : StoreSaveStart(i, b, f)
  \/ \E t \in TasksOf("storeUpsert"), o \in Outcomes : StoreSaveDone(t, o)

\* steps of part_002 taken by the program itself: timers and continuations
ProgramLocal ==
  \/ \E o \in Outcomes : InitClientLocal(o)
  \/ \E o \in Outcomes : DisconnectDeleteDone(o)
  \/ \E t \in RestartTimers : RestartLocal(t)
  \/ \E i \in Slots : DestroyDone(i)
  \/ \E t \in SaveTimers, r \in BOOLEAN : SaveTimerFires(t, r)
  \/ IntervalFires
  \/ \E t \in TasksOf("upsert"), o \in Outcomes : UpsertDone(t, o)
  \/ \E t \in TasksOf("logoutClient"), o \in {"ok", "throw"} : LogoutClientDone(t, o)
  \/ \E o \in Outcomes : LogoutDeleteDone(o)

\* events of the opaque client in part_002
EventsLocal ==
  \/ \E i \in Slots : OnQrLocal(i)
  \/ \E i \in Slots : OnAuthenticatedLocal(i)
  \/ \E i \in Slots : OnReadyLocal(i)
  \/ \E i \in Slots : OnAuthFailureLocal(i)
  \/ \E i \in Slots, r \in Reasons : OnDisconnectedLocal(i, r)
  \/ \E i \in Slots, b \in Blobs : ClientWritesSession(i, b)

\* requests arriving at the control surface
Requests ==
  \/ \E p \in SendPhones, m \in SendMessages, d \in BOOLEAN : SendRemote(p, m, TRUE, d)
  \/ \E p \in SendPhones, m \in SendMessages, d \in BOOLEAN : SendLocal(p, m, TRUE, d)
  \/ SendRemote(JsStr(DigitString(MinPhoneDigits, <<"6">>)), JsStr(Hola), FALSE, TRUE)
  \/ SendLocal(JsStr(DigitString(MinPhoneDigits, <<"6">>)), JsStr(Hola), FALSE, TRUE)
  \/ \E a \in BOOLEAN : LogoutStart(a)

NextLocal == ProgramLocal \/ EventsLocal

Next == NextRemote \/ NextLocal \/ Requests

Spec == Init /\ [][Next]_vars

\* both servers with GET /status being served as well
Status == StatusRemote \/ \E a \in BOOLEAN : StatusLocal(a)

NextSurface == Next \/ Status

SpecSurface == Init /\ [][NextSurface]_vars

\* server.js alone, the environment failing it until the backoff is capped
InitBackoff ==
  /\ variant = "remote"
  /\ client = 1
  /\ isReady = FALSE
  /\ qrImageBase64 = "null"
  /\ lastQr = "null"
  /\ initAttempts = 1
  /\ inst = [s \in Slots |-> IF s = 1 THEN "starting" ELSE "free"]
  /\ timers = EmptyBag
  /\ intervals = 0
  /\ tasks = EmptyBag
  /\ store \in {NoRow} \cup Blobs
  /\ sessionFile = NoFile
  /\ ev = Event("boot", 1)
  /\ schedDelay = -1
  /\ attemptCap = MaxBackoffAttempts
  /\ fnIn = [f |-> "none", raw |-> JsUndefined]
  /\ fnOut = [done |-> FALSE, v |-> JsUndefined]
  /\ StoreAtRest

RequestsRemote ==
  \/ \E p \in SendPhones, m \in SendMessages, d \in BOOLEAN : SendRemote(p, m, TRUE, d)
  \/ SendRemote(JsStr(DigitString(MinPhoneDigits, <<"6">>)), JsStr(Hola), FALSE, TRUE)

NextBackoff == NextRemote \/ RequestsRemote

SpecBackoff == InitBackoff /\ [][NextBackoff]_vars

\* both servers with the store methods of server.js taking part, over fewer
\* restarts
InitStore ==
  \/ InitLocal
  \/ /\ variant = "remote"
     /\ client = 1
     /\ isReady = FALSE
     /\ qrImageBase64 = "null"
     /\ lastQr = "null"
     /\ initAttempts = 1
     /\ inst = [s \in Slots |-> IF s = 1 THEN "starting" ELSE "free"]
     /\ timers = EmptyBag
     /\ intervals = 0
     /\ tasks = EmptyBag
     /\ store \in {NoRow} \cup Blobs
     /\ sessionFile = NoFile
     /\ ev = Event("boot", 1)
     /\ schedDelay = -1
     /\ attemptCap = MaxStoreAttempts
     /\ fnIn = [f |-> "none", raw |-> JsUndefined]
     /\ fnOut = [done |-> FALSE, v |-> JsUndefined]
     /\ StoreAtRest

NextStore == Next \/ StoreRemote

SpecStore == InitStore /\ [][NextStore]_vars

----------------------------------------------------------------------------
(* The validation functions and /send on request bodies alone: the session *)
(* is the one part_002 has after boot, either before or after `ready`      *)

InitBodies ==
  /\ variant = "local"
  /\ client = 1
  /\ isReady \in BOOLEAN
  /\ qrImageBase64 = "null"
  /\ lastQr = "null"
  /\ initAttempts = 0
  /\ inst = [s \in Slots |-> IF s = 1 THEN (IF isReady THEN "ready" ELSE "starting")
                             ELSE "free"]
  /\ timers = EmptyBag
  /\ intervals = 1
  /\ tasks = EmptyBag
  /\ store = NoRow
  /\ sessionFile = NoFile
  /\ ev = Event("boot", Null)
  /\ schedDelay = -1
  /\ attemptCap = MaxAttempts
  /\ fnIn \in ([f : {"validatePhone"}, raw : RawPhones]
                 \cup [f : {"sanitizeMessage"}, raw : RawMessages])
  /\ fnOut = [done |-> FALSE, v |-> JsUndefined]
  /\ StoreAtRest

\* validatePhone is applied to the input
CallValidatePhone ==
  /\ fnIn.f = "validatePhone"
  /\ ~fnOut.done
  /\ fnOut' = [done |-> TRUE, v |-> validatePhone(fnIn.raw)]
  /\ UNCHANGED <<variant, client, isReady, qrImageBase64, lastQr, initAttempts,
                 inst, timers, intervals, tasks, store, sessionFile, ev,
                 schedDelay, attemptCap, fnIn, table, zip, saveCall>>

\* sanitizeMessage is applied to the input
CallSanitizeMessage ==
  /\ fnIn.f = "sanitizeMessage"
  /\ ~fnOut.done
  /\ fnOut' = [done |-> TRUE, v |-> sanitizeMessage(fnIn.raw)]
  /\ UNCHANGED <<variant, client, isReady, qrImageBase64, lastQr, initAttempts,
                 inst, timers, intervals, tasks, store, sessionFile, ev,
                 schedDelay, attemptCap, fnIn, table, zip, saveCall>>

\* /send with the input as one field of the body and a valid other field
SendBody ==
  /\ ev.h = "boot"
  /\ \E delivered \in BOOLEAN :
       IF fnIn.f = "validatePhone"
         THEN SendLocal(fnIn.raw, JsStr(Hola), TRUE, delivered)
         ELSE SendLocal(JsStr(DigitString(MinPhoneDigits, <<"6">>)), fnIn.raw,
                        TRUE, delivered)

NextBodies == CallValidatePhone \/ CallSanitizeMessage \/ SendBody

SpecBodies == InitBodies /\ [][NextBodies]_vars

----------------------------------------------------------------------------
(* part_002 alone, with the scheduling Node guarantees: an armed timer      *)
(* fires and an awaited call settles.  Nothing obliges the client library   *)
(* to emit an event or an HTTP caller to send a request.                    *)

NextLogout == NextLocal \/ \E a \in BOOLEAN : LogoutStart(a)

FairLocal ==
  /\ InitLocal
  /\ [][NextLogout]_vars
  /\ WF_vars(\E t \in RestartTimers : RestartLocal(t))
  /\ WF_vars(\E o \in Outcomes : InitClientLocal(o))
  /\ WF_vars(\E o \in Outcomes : DisconnectDeleteDone(o))
  /\ WF_vars(\E t \in TasksOf("logoutClient"), o \in {"ok", "throw"} : LogoutClientDone(t, o))
  /\ WF_vars(\E o \in Outcomes : LogoutDeleteDone(o))

----------------------------------------------------------------------------
(* server.js: SupabaseStore on the bytes of the session.  The zip is a      *)
(* sequence of bytes, a row holds its base64 text (a sequence of 6-bit      *)
(* symbols, Pad for '='), waitForFile runs against a clock in milliseconds. *)

SESSION_ID == "carmocream"

\* buf.toString('base64')
RECURSIVE Base64Encode(_)
Base64Encode(b) ==
  IF Len(b) = 0 THEN <<>>
  ELSE IF Len(b) = 1
    THEN <<b[1] \div 4, (b[1] % 4) * 16, Pad, Pad>>
  ELSE IF Len(b) = 2
    THEN <<b[1] \div 4, (b[1] % 4) * 16 + b[2] \div 16, (b[2] % 16) * 4, Pad>>
  ELSE <<b[1] \div 4, (b[1] % 4) * 16 + b[2] \div 16,
         (b[2] % 16) * 4 + b[3] \div 64, b[3] % 64>>
         \o Base64Encode(SubSeq(b, 4, Len(b)))

\* the bytes of a run of 6-bit symbols
RECURSIVE SextetsToBytes(_)
SextetsToBytes(x) ==
  IF Len(x) < 2 THEN <<>>
  ELSE IF Len(x) = 2
    THEN <<x[1] * 4 + x[2] \div 16>>
  ELSE IF Len(x) = 3
    THEN <<x[1] * 4 + x[2] \div 16, (x[2] % 16) * 16 + x[3] \div 4>>
  ELSE <<x[1] * 4 + x[2] \div 16, (x[2] % 16) * 16 + x[3] \div 4,
         (x[3] % 4) * 64 + x[4]>>
         \o SextetsToBytes(SubSeq(x, 5, Len(x)))

\* a base64 decoder that drops a last group shorter than four symbols
Base64DecodeWholeGroups(text) ==
  LET x == SelectSeq(text, LAMBDA c : c < Pad)
  IN  SextetsToBytes(SubSeq(x, 1, Len(x) - (Len(x) % 4)))

\* Buffer.from(text, 'base64'): padding carries no bits
Base64Decode(text) == SextetsToBytes(SelectSeq(text, LAMBDA c : c < Pad))

\* row data that is the base64 text of no byte sequence: a lone symbol
MalformedText == <<26>>

RowsFor(id) == {r \in table : r.id = id}

\* an insert: the row is added beside whatever the table holds
Insert(t, row) == t \cup {row}

\* .upsert(row, { onConflict: 'id' }): the row replaces the one with its id
Upsert(t, row) == {r \in t : r.id # row.id} \cup {row}

\* the contents the session zip may have
ByteSeqs == UNION {[1..n -> ByteValues] : n \in 0..MaxBytes}

\* the strategy writes the zip it wants saved
ArtifactWritten(b) ==
  /\ zip # [exists |-> TRUE, bytes |-> b]
  /\ zip' = [exists |-> TRUE, bytes |-> b]
  /\ ev' = Event("writeSession", Null)
  /\ UNCHANGED <<variant, client, isReady, qrImageBase64, lastQr, initAttempts,
                 inst, timers, intervals, tasks, store, sessionFile, schedDelay,
                 attemptCap, fnIn, fnOut, table, saveCall>>

\* the strategy removes the zip once no save is running
ArtifactRemoved ==
  /\ zip.exists
  /\ saveCall.pc = "idle"
  /\ zip' = NoZip
  /\ ev' = Event("removeSession", Null)
  /\ UNCHANGED <<variant, client, isReady, qrImageBase64, lastQr, initAttempts,
                 inst, timers, intervals, tasks, store, sessionFile, schedDelay,
                 attemptCap, fnIn, fnOut, table, saveCall>>

\* waitForFile's check with its timeout compared strictly
checkStrict(elapsed) ==
  IF zip.exists THEN "resolve"
  ELSE IF elapsed > WaitTimeout THEN "reject"
  ELSE "again"

\* waitForFile's check(): resolve when the file exists, reject once the
\* timeout has elapsed, otherwise setTimeout(check, intervalMs)
check(elapsed) ==
  IF zip.exists THEN "resolve"
  ELSE IF elapsed >= WaitTimeout THEN "reject"
  ELSE "again"

\* save() after a check at `elapsed`: on resolve the zip is read, encoded and
\* the upsert issued; on reject the catch logs and save returns.  fnIn keeps
\* the bytes of the put that was applied last
AfterCheck(elapsed) ==
  LET c == check(elapsed)
  IN  /\ saveCall' =
           CASE c = "resolve" -> [pc |-> "upserting", elapsed |-> elapsed,
                                  bytes |-> zip.bytes,
                                  data |-> Base64Encode(zip.bytes)]
             [] c = "reject"  -> NoCall
             [] OTHER         -> [pc |-> "waiting", elapsed |-> elapsed,
                                  bytes |-> <<>>, data |-> <<>>]
      /\ ev' = [Event("waitForFile", Null) EXCEPT
                  !.delay = elapsed,
                  !.out = IF c = "reject" THEN "timeout" ELSE "none",
                  !.ret = c]

\* SupabaseStore.save({ session, path }) is called: waitForFile runs its
\* first check at once
SaveCalled ==
  /\ saveCall.pc = "idle"
  /\ AfterCheck(0)
  /\ UNCHANGED <<variant, client, isReady, qrImageBase64, lastQr, initAttempts,
                 inst, timers, intervals, tasks, store, sessionFile, schedDelay,
                 attemptCap, fnIn, fnOut, table, zip>>

\* the setTimeout(check, intervalMs) of waitForFile fires, on time or late
PollTimerFires(late) ==
  /\ saveCall.pc = "waiting"
  /\ AfterCheck(saveCall.elapsed + PollInterval + late)
  /\ UNCHANGED <<variant, client, isReady, qrImageBase64, lastQr, initAttempts,
                 inst, timers, intervals, tasks, store, sessionFile, schedDelay,
                 attemptCap, fnIn, fnOut, table, zip>>

\* the upsert of save settles
SaveUpsertSettles(outcome) ==
  /\ saveCall.pc = "upserting"
  /\ table' = IF outcome = "ok"
                THEN Upsert(table, [id |-> SESSION_ID, data |-> saveCall.data])
                ELSE table
  /\ fnIn' = IF outcome = "ok"
               THEN [f |-> "save", raw |-> [t |-> "bytes", s |-> saveCall.bytes]]
               ELSE fnIn
  /\ saveCall' = NoCall
  /\ ev' = [Event("save", Null) EXCEPT
              !.out = outcome,
              !.prev = IF /\ outcome = "ok"
                          /\ RowsFor(SESSION_ID) # {}
                          /\ table' # table
                       THEN "replaced"
                       ELSE "none"]
  /\ UNCHANGED <<variant, client, isReady, qrImageBase64, lastQr, initAttempts,
                 inst, timers, intervals, tasks, store, sessionFile, schedDelay,
                 attemptCap, fnOut, zip>>

\* SupabaseStore.extract({ session, path }): select(...).maybeSingle() gives
\* the one row, no data when there is none, an error when there are several
ExtractCalled(outcome) ==
  /\ saveCall.pc = "idle"
  /\ LET rows == RowsFor(SESSION_ID)
         found == outcome = "ok" /\ Cardinality(rows) = 1
         bytes == Base64Decode((CHOOSE r \in rows : TRUE).data)
     IN  /\ zip' = IF found THEN [exists |-> TRUE, bytes |-> bytes] ELSE zip
         /\ ev' = [Event("extract", Null) EXCEPT
                     !.out = outcome,
                     !.ret = IF found THEN "written" ELSE "none"]
  /\ UNCHANGED <<variant, client, isReady, qrImageBase64, lastQr, initAttempts,
                 inst, timers, intervals, tasks, store, sessionFile, schedDelay,
                 attemptCap, fnIn, fnOut, table, saveCall>>

\* SupabaseStore.delete({ session })
DeleteCalled(outcome) ==
  /\ saveCall.pc = "idle"
  /\ table # {}
  /\ table' = IF outcome = "ok" THEN table \ RowsFor(SESSION_ID) ELSE table
  /\ fnIn' = IF outcome = "ok" THEN [f |-> "none", raw |-> JsUndefined] ELSE fnIn
  /\ ev' = [Event("delete", Null) EXCEPT !.del = outcome]
  /\ UNCHANGED <<variant, client, isReady, qrImageBase64, lastQr, initAttempts,
                 inst, timers, intervals, tasks, store, sessionFile, schedDelay,
                 attemptCap, fnOut, zip, saveCall>>

\* the store of server.js alone: no row yet or a malformed one, the zip
\* written or not
InitCodec ==
  /\ variant = "remote"
  /\ client = 1
  /\ isReady = FALSE
  /\ qrImageBase64 = "null"
  /\ lastQr = "null"
  /\ initAttempts = 1
  /\ inst = [s \in Slots |-> IF s = 1 THEN "authenticated" ELSE "free"]
  /\ timers = EmptyBag
  /\ intervals = 0
  /\ tasks = EmptyBag
  /\ store = NoRow
  /\ sessionFile = NoFile
  /\ ev = Event("boot", 1)
  /\ schedDelay = -1
  /\ attemptCap = MaxAttempts
  /\ fnIn = [f |-> "none", raw |-> JsUndefined]
  /\ fnOut = [done |-> FALSE, v |-> JsUndefined]
  /\ table \in {{}, {[id |-> SESSION_ID, data |-> MalformedText]}}
  /\ zip \in {NoZip} \cup [exists : {TRUE}, bytes : ByteSeqs]
  /\ saveCall = NoCall

NextCodec ==
  \/ \E b \in ByteSeqs : ArtifactWritten(b)
  \/ ArtifactRemoved
  \/ SaveCalled
  \/ \E late \in {0, PollInterval \div 2} : PollTimerFires(late)
  \/ \E o \in Outcomes : SaveUpsertSettles(o)
  \/ \E o \in Outcomes : ExtractCalled(o)
  \/ \E o \in Outcomes : DeleteCalled(o)

SpecCodec == InitCodec /\ [][NextCodec]_vars

\* the same with Node's timers: an armed poll timer fires
FairCodec ==
  SpecCodec /\ WF_vars(\E late \in {0, PollInterval \div 2} : PollTimerFires(late))

----------------------------------------------------------------------------
(* Claims *)

\* a handler has just constructed a Client and started initializing it
Created == ev.h = "initClient"

\* C1: at most one client instance is live at a time: whenever initClient
\* creates an instance, the teardown (destroy) of the instance `client`
\* referred to before has completed.
C1_TeardownBeforeCreate == Created => ev.prev \in {"none", "destroyed"}

\* C2: within a run of `disconnected` events with no `ready` between them
\* the scheduled restart delays never decrease, and no delay exceeds 60000.
C2_BackoffMonotone ==
  [][/\ (schedDelay >= 0 /\ schedDelay' >= 0) => schedDelay' >= schedDelay
     /\ schedDelay' <= 60000]_vars

\* C2 witness: a disconnect whose delay the ceiling cut down
C2_Witness ==
  ev.h = "disconnected" /\ initAttempts >= 13 /\ schedDelay = 60000

\* C3: `ready` sets the attempt counter to 0 and no other step (event,
\* timer, continuation or HTTP request) ever decreases it.
C3_ResetOnlyOnReady ==
  [][/\ ev'.h = "ready" => initAttempts' = 0
     /\ ev'.h # "ready" => initAttempts' >= initAttempts]_vars

\* C3 witness: `authenticated` arrives in a third cycle and the counter stays
C3_Witness == ev.h = "authenticated" /\ initAttempts >= 3 /\ ~isReady

\* C4: every `disconnected` event adds one to the attempt counter and arms
\* the restart after min(5000 * counter, 60000) of the incremented counter,
\* so the first disconnect after `ready` waits 5000 ms.
C4_DisconnectCountsAndBacksOff ==
  [][ev'.h = "disconnected" =>
       /\ initAttempts' = initAttempts + 1
       /\ ev'.delay = Min(5000 * initAttempts', 60000)
       /\ ev'.delay >= 5000]_vars

\* the /send that was just answered came with the shared secret
AnsweredSend == ev.h = "send" /\ ev.status # 401

\* C5 as claimed: an authenticated /send handled while not ready is answered
\* 503 whatever its body, and sendMessage is not called.
C5_NotReadyAlways503 ==
  (AnsweredSend /\ ~isReady) => (ev.status = 503 /\ ev.calls = 0)

\* the digits of a character sequence, in order
RECURSIVE DigitsOf(_)
DigitsOf(s) ==
  IF s = <<>> THEN <<>>
  ELSE (IF Head(s) \in Digit THEN <<Head(s)>> ELSE <<>>) \o DigitsOf(Tail(s))

\* a sequence without its leading blanks
RECURSIVE DropBlanks(_)
DropBlanks(s) == IF s # <<>> /\ Head(s) = " " THEN DropBlanks(Tail(s)) ELSE s

\* a sequence without its trailing blanks
RECURSIVE DropBlanksEnd(_)
DropBlanksEnd(s) ==
  IF s # <<>> /\ s[Len(s)] = " " THEN DropBlanksEnd(SubSeq(s, 1, Len(s) - 1)) ELSE s

Trimmed(s) == DropBlanksEnd(DropBlanks(s))

\* a body every variant accepts: a phone string of 9 to 15 digits and a
\* message string that is not blank
WellFormed(phone, msg) ==
  /\ phone.t = "string"
  /\ Len(DigitsOf(phone.s)) >= 9
  /\ Len(DigitsOf(phone.s)) <= 15
  /\ msg.t = "string"
  /\ Len(Trimmed(msg.s)) > 0
  /\ Len(Trimmed(msg.s)) <= 2000

\* C5 as amended: an authenticated /send handled while not ready never calls
\* sendMessage; it is answered 503 when its body is well formed and 400 or
\* 503 otherwise (validation comes before the readiness check).
C5_NotReadyNeverSends ==
  (AnsweredSend /\ ~isReady) =>
    /\ ev.calls = 0
    /\ ev.status \in {400, 503}
    /\ WellFormed(ev.phone, ev.msg) => ev.status = 503

\* C5 witness: a well-formed /send answered 503 while not ready
C5_Witness ==
  AnsweredSend /\ ~isReady /\ WellFormed(ev.phone, ev.msg) /\ ev.status = 503

\* C6: a /send whose recipient has no digits or a digit count out of range,
\* or whose message is empty, is answered 400 and never reaches sendMessage,
\* in every lifecycle state.
C6_InvalidBodyRejected ==
  (AnsweredSend /\ ~WellFormed(ev.phone, ev.msg)) =>
    (ev.status = 400 /\ ev.calls = 0)

\* validatePhone has been applied
PhoneChecked == fnOut.done /\ fnIn.f = "validatePhone"

\* C7: with d the digits of raw, validatePhone returns null exactly when d
\* has fewer than 9 or more than 15 digits, "34" followed by d when d has 9,
\* and d itself when d has 10 to 15; a result has 10 to 15 digits.
C7_ValidatePhone ==
  PhoneChecked =>
    LET d == DigitsOf(fnIn.raw.s)
        r == fnOut.v
    IN  /\ (r = JsNull) <=> (Len(d) < 9 \/ Len(d) > 15)
        /\ Len(d) = 9 => (r = JsStr(<<"3", "4">> \o d) /\ Len(r.s) = 11)
        /\ (Len(d) >= 10 /\ Len(d) <= 15) => r = JsStr(d)
        /\ r # JsNull => (Len(r.s) >= 10 /\ Len(r.s) <= 15)

\* C7 witness: a formatted 9-digit number got its prefix
C7_Witness ==
  /\ PhoneChecked
  /\ Len(DigitsOf(fnIn.raw.s)) = 9
  /\ Len(fnIn.raw.s) > 9
  /\ fnOut.v.t = "string"

\* sanitizeMessage has been applied
MessageChecked == fnOut.done /\ fnIn.f = "sanitizeMessage"

\* /send has answered a body whose message field is the input
MessageSent == ev.h = "send" /\ fnIn.f = "sanitizeMessage"

\* what C8 says of a message whose trimmed length must stay below `limit`
MessageRule(limit) ==
  LET accepted == /\ fnIn.raw.t = "string"
                  /\ Len(Trimmed(fnIn.raw.s)) > 0
                  /\ Len(Trimmed(fnIn.raw.s)) < limit
  IN  /\ MessageChecked =>
           fnOut.v = IF accepted THEN JsStr(Trimmed(fnIn.raw.s)) ELSE JsNull
      /\ MessageSent => (ev.status = 400 <=> ~accepted)

\* C8 as claimed: sanitizeMessage accepts exactly the strings whose trimmed
\* form is non-empty and shorter than 2000 characters and returns the
\* trimmed string; anything else gives null and a 400 from /send.
C8_UnderMaximum == MessageRule(2000)

\* C8 as amended: the trimmed form may be up to 2000 characters long; only
\* from 2001 characters on is the message rejected.
C8_AtMostMaximum == MessageRule(2001)

\* C8 witness: a padded message of exactly 2000 characters was accepted
C8_Witness ==
  /\ MessageChecked
  /\ Len(fnIn.raw.s) > 2000
  /\ fnOut.v.t = "string"
  /\ Len(fnOut.v.s) = 2000

\* C9: once an authenticated /logout has been answered, whether
\* client.logout() succeeded or threw and whether a client existed, the store
\* holds no row for the session id (the store itself not having failed).
C9_LogoutLeavesNoRow ==
  (ev.h = "logout" /\ ev.status # 401 /\ ev.del \notin {"error", "throw"}) =>
    store = NoRow

\* C10 as claimed: after an authenticated /logout has been answered, a new
\* cycle is eventually started.
C10_LogoutRestarts == (ev.h = "logout" /\ ev.status = 200) ~> Created

\* a step of the /logout handler
LogoutStep == ev'.h \in {"logoutStart", "logoutClient", "logout"}

\* C10 as amended: the /logout handler itself tears nothing down and starts
\* no cycle: it leaves `client`, the timers and the running initClient calls
\* alone.  A cycle starts only from the restart timer that a `disconnected`
\* handler arms, and once that timer is armed initClient does run again.
C10_RestartOnlyByTimer ==
  /\ [][LogoutStep =>
          /\ client' = client
          /\ timers' = timers
          /\ TasksOf("restore") = {t \in BagToSet(tasks') : t.k = "restore"}
          /\ \A s \in Slots : inst'[s] = "destroying" => inst[s] = "destroying"]_vars
  /\ (NumRestartTimers > 0) ~> Created

\* C10 witness: /logout has answered success, the instance is logged out and
\* nothing is armed to start a cycle
C10_Witness ==
  /\ ev.h = "logout"
  /\ ev.status = 200
  /\ client # Null
  /\ inst[client] = "loggedOut"
  /\ NumRestartTimers = 0
  /\ NumTasks("restore") = 0

\* a store put has just failed: save / saveSession found no readable
\* artifact, or its upsert returned an error or threw
PutFailed ==
  /\ ev.h \in {"save", "saveSession", "upsert"}
  /\ ev.out \in {"nofile", "unreadable", "error", "throw"}

\* C11: a store put that fails leaves the ready flag, the pairing artifact,
\* the attempt counter, the current client and the stored row as they were
\* and raises nothing; a valid /send handled next in READY still makes its
\* sendMessage call on the current client.
C11_PutFailureIsolated ==
  /\ [][PutFailed' =>
          /\ UNCHANGED <<isReady, qrImageBase64, lastQr, initAttempts, client,
                         inst, store>>
          /\ ~ev'.raised]_vars
  /\ [][(PutFailed /\ ev'.h = "send" /\ ev'.status # 401 /\ isReady
            /\ WellFormed(ev'.phone, ev'.msg)) =>
          (ev'.calls = 1 /\ ev'.to = client /\ ev'.status \in {200, 500})]_vars

\* C11 witness: an upsert failed while the service was READY
C11_Witness ==
  PutFailed /\ ev.out \in {"error", "throw"} /\ isReady /\ client # Null

\* C12: every `auth_failure` requests one delete of the stored row (which is
\* gone once the delete succeeds) and then arms exactly one restart timer,
\* of 8000 ms whatever the attempt counter.
C12_AuthFailureFixedRestart ==
  [][/\ ev'.h = "auth_failure" =>
          /\ tasks' = tasks (+) One(Task("authFailDelete", NoArg))
          /\ timers' = timers
     /\ ev'.h = "authFailDelete" =>
          /\ ev'.del = "ok" => store' = NoRow
          /\ timers' = timers (+) One(Timer("restart", 8000))
          /\ ev'.delay = 8000]_vars

\* C12 witness: the restart of a third failed cycle is armed, the row gone
C12_Witness ==
  /\ ev.h = "authFailDelete"
  /\ ev.delay = 8000
  /\ initAttempts >= 3
  /\ store = NoRow
  /\ NumRestartTimers = 1

\* C13: after any `auth_failure` event, timers firing fairly, a new client
\* cycle is eventually started.
C13_AuthFailureRestarts == (ev.h = "auth_failure") ~> Created

\* C14: after every `disconnected` event, whatever its reason and however
\* the store behaves, initClient eventually runs again; the handler leaves
\* the ready flag false and only a `ready` event raises it.
C14_SelfHealing ==
  /\ (ev.h = "disconnected") ~> Created
  /\ [][ev'.h = "disconnected" => ~isReady']_vars
  /\ [][(~isReady /\ isReady') => ev'.h = "ready"]_vars

\* C15: a store delete that returns an error or throws raises nothing out of
\* the handler that awaited it, and the handler still arms its restart, on
\* `auth_failure` and on `disconnected` with reason LOGOUT alike.
C15_DeleteFailureSwallowed ==
  (ev.h \in {"authFailDelete", "discDelete"} /\ ev.del \in {"error", "throw"}) =>
    (~ev.raised /\ ev.delay = 8000 /\ NumRestartTimers > 0)

\* C16: sessionExists returns true only when the lookup succeeded and found
\* a row; when the lookup returns an error or throws it returns false, and
\* it never raises.
C16_SessionExistsFailsOpen ==
  ev.h = "sessionExists" =>
    /\ ev.ret \in {"true", "false"}
    /\ ~ev.raised
    /\ ev.ret = "true" => (ev.out = "ok" /\ store # NoRow)
    /\ ev.out \in {"error", "throw"} => ev.ret = "false"

\* C16 witness: the lookup threw although a row is stored
C16_Witness ==
  ev.h = "sessionExists" /\ ev.out = "throw" /\ store # NoRow /\ ev.ret = "false"

\* the store read that has just run found no row, or failed
ReadCameBackEmpty == store = NoRow \/ ev'.out \in {"error", "throw"}

\* C17: when no row exists or the remote read errors or throws, extract and
\* restoreSession write no local artifact and raise nothing, and initClient
\* goes on to construct and initialize the client.
C17_ReadFailsAsAbsent ==
  [][/\ (ev'.h = "extract" /\ ReadCameBackEmpty) =>
          /\ sessionFile' = sessionFile
          /\ ev'.ret = "none"
          /\ ~ev'.raised
     /\ (ev'.h = "initClient" /\ variant = "local" /\ ReadCameBackEmpty) =>
          /\ sessionFile' = sessionFile
          /\ ~ev'.raised
          /\ client' # Null
          /\ client' = ev'.i
          /\ inst'[client'] = "starting"]_vars

\* C17 witness: the read threw although a row is stored, and the client was
\* started without a local artifact
C17_Witness ==
  /\ ev.h = "initClient"
  /\ variant = "local"
  /\ ev.out = "throw"
  /\ store # NoRow
  /\ sessionFile = NoFile
  /\ inst[client] = "starting"

\* C18: at most one periodic saveSession timer is armed at any time, however
\* many cycles initClient has started.
C18_OnePeriodicTimer == intervals <= 1

\* C19: the `disconnected` handler requests the delete of the stored row
\* exactly when the reason is explicit logout, and the handler's own step
\* leaves the row as it is.
C19_DeleteIffLogout ==
  [][ev'.h = "disconnected" =>
       /\ store' = store
       /\ ev'.reason = "LOGOUT" <=>
            tasks' = tasks (+) One(Task("discDelete", NoArg))
       /\ ev'.reason # "LOGOUT" => tasks' = tasks]_vars

\* C20: a /send that passes validation while READY makes exactly one
\* sendMessage call, on the current client; when the call fails the answer
\* is 500 with success false and no second call, when it succeeds the answer
\* has success true; no /send makes a call otherwise.
C20_SendFiresOnce ==
  AnsweredSend =>
    /\ (WellFormed(ev.phone, ev.msg) /\ isReady /\ client # Null) =>
         (ev.calls = 1 /\ ev.to = client /\ ev.status \in {200, 500})
    /\ ev.status = 500 => (ev.calls = 1 /\ ev.success = "false")
    /\ ev.status = 200 => (ev.calls = 1 /\ ev.success = "true")
    /\ ev.status \notin {200, 500} => ev.calls = 0

\* C20 witness: the one sendMessage call of a valid /send in READY failed
C20_Witness ==
  /\ AnsweredSend
  /\ WellFormed(ev.phone, ev.msg)
  /\ isReady
  /\ ev.status = 500
  /\ ev.calls = 1
  /\ ev.success = "false"

\* C21: the persisted blob round-trips exactly: an extract that follows a
\* successful save writes a zip whose bytes are those the save read.
C21_RoundTrip ==
  [][(ev'.h = "extract" /\ ev'.out = "ok" /\ fnIn.f = "save") =>
       /\ ev'.ret = "written"
       /\ zip'.exists
       /\ zip'.bytes = fnIn.raw.s]_vars

\* C21 witness: extract restored a zip whose base64 text ends in padding
C21_Witness ==
  /\ ev.h = "extract"
  /\ ev.ret = "written"
  /\ Len(zip.bytes) = 2
  /\ zip.bytes[1] # zip.bytes[2]
  /\ zip.bytes = fnIn.raw.s

\* the row of the session holds data that decodes to nothing
RowMalformed == \E r \in RowsFor(SESSION_ID) : r.data = MalformedText

\* C22: when the row of the session holds non-decodable data, the store read
\* materializes no local artifact and lets no exception escape.
C22_MalformedBlobNotMaterialized ==
  [][(ev'.h = "extract" /\ RowMalformed) =>
       /\ zip' = zip
       /\ ev'.ret = "none"
       /\ ~ev'.raised]_vars

\* C23: after any sequence of successful saves the table holds exactly one row
\* for the session id and it carries the value of the last save; a save never
\* adds a second row for the id.
C23_OneRowLastPut ==
  /\ Cardinality(RowsFor(SESSION_ID)) <= 1
  /\ fnIn.f = "save" =>
       RowsFor(SESSION_ID) =
         {[id |-> SESSION_ID, data |-> Base64Encode(fnIn.raw.s)]}

\* C23 witness: a save has just replaced a row by one with different data
C23_Witness ==
  /\ ev.h = "save"
  /\ ev.out = "ok"
  /\ ev.prev = "replaced"
  /\ Cardinality(RowsFor(SESSION_ID)) = 1

\* C24: whenever the ready flag is true the pairing artifact is null, also
\* when the image of a QR code is produced after a later `ready`.
C24_ReadyHasNoPairingArtifact ==
  isReady => (qrImageBase64 = "null" /\ lastQr = "null")

\* C25: every `authenticated` event clears the pairing artifact and schedules
\* a delayed save of the session, and changes neither the ready flag nor the
\* attempt counter.  (With RemoteAuth the save is scheduled by the strategy,
\* not by the handler, so the timer is required of the LocalAuth server only.)
C25_AuthenticatedClearsAndSaves ==
  [][ev'.h = "authenticated" =>
       /\ qrImageBase64' = "null"
       /\ lastQr' = "null"
       /\ variant = "local" =>
            timers' = timers (+) One(Timer("saveSession", SaveDelayAuthenticated))
       /\ UNCHANGED <<isReady, initAttempts>>]_vars

\* C26: the wait for the zip always settles: it resolves at the first check
\* that finds the file, rejects at the first check made at or after the
\* timeout, and polls again otherwise; a wait that rejects leaves the table
\* untouched and no upsert in flight.
C26_WaitForFileSettles ==
  /\ (saveCall.pc = "waiting") ~> (saveCall.pc # "waiting")
  /\ [](saveCall.pc = "waiting" => saveCall.elapsed < WaitTimeout)
  /\ [][ev'.h = "waitForFile" =>
          /\ (ev'.ret = "resolve") <=> zip.exists
          /\ (ev'.ret = "reject") <=>
               (~zip.exists /\ ev'.delay >= WaitTimeout)
          /\ (ev'.ret = "reject") =>
               (table' = table /\ saveCall' = NoCall /\ ev'.out = "timeout")
          /\ (ev'.ret = "again") => saveCall'.pc = "waiting"]_vars

\* C26 witness: a wait was rejected by a check made late, after the timeout
C26_Witness ==
  /\ ev.h = "waitForFile"
  /\ ev.out = "timeout"
  /\ ev.delay > WaitTimeout
  /\ saveCall = NoCall

\* C27: in every initialization cycle of the LocalAuth server the restore has
\* completed, with its effect on the session file, when the client instance
\* is created and initialized.
C27_RestoreBeforeCreate ==
  [][(variant = "local" /\ ev'.h = "initClient") =>
       /\ NumTasks("restore") > 0
       /\ tasks' = tasks (-) One(Task("restore", NoArg))
       /\ sessionFile' = restoreSession(ev'.out)
       /\ inst'[client'] = "starting"]_vars

\* C27 witness: a restart cycle restored the stored session, then created the
\* client
C27_Witness ==
  /\ variant = "local"
  /\ ev.h = "initClient"
  /\ ev.prev # "none"
  /\ ev.out = "ok"
  /\ store # NoRow
  /\ sessionFile = store
  /\ NumTasks("restore") = 0
  /\ inst[client] = "starting"

\* C28: at most one restart is pending at any time, so several failure events
\* of one instance lead to a single initClient.
C28_OneRestartPending ==
  NumRestartTimers <= 1

\* C29: GET /status and POST /send only read the controller: they leave the
\* ready flag, the pairing artifact, the attempt counter, the client and the
\* durable store as they were.
C29_RequestsOnlyRead ==
  [][ev'.h \in {"send", "status"} =>
       UNCHANGED <<isReady, qrImageBase64, lastQr, initAttempts, client, inst,
                   store, table, sessionFile, zip, timers, intervals,
                   tasks>>]_vars

\* C29 witness: a /send whose delivery failed was answered 500 and the
\* controller is still ready
C29_Witness ==
  /\ ev.h = "send"
  /\ ev.status = 500
  /\ isReady
  /\ inst[client] = "ready"

\* C30: whenever the ready flag is true, `client` is the instance that
\* emitted the latest `ready` and has not disconnected since, and /send never
\* hands a message to an instance that is not itself ready (stated for
\* server.js).
C30_ReadyMeansClientReady ==
  variant = "remote" =>
    /\ isReady => (client # Null /\ inst[client] = "ready")
    /\ (AnsweredSend /\ ev.calls = 1) => inst[ev.to] = "ready"

\* the last step deleted the stored blob because of an explicit logout
DeletedByLogout ==
  /\ ev.h \in {"logout", "discDelete"}
  /\ ev.del = "ok"
  /\ store = NoRow

\* C31: once the stored blob has been deleted because of an explicit logout,
\* no save scheduled earlier writes a blob back before a new `authenticated`:
\* in particular the step that follows the delete leaves the store empty.
C31_NoWriteBackAfterLogout ==
  [][DeletedByLogout => store' = NoRow]_vars

====
